---- MODULE Spec2Model ----
(***************************************************************************)
(* EUDR-Tools core pipelines: merge_geojson (core/merge_geojson_lib.py),   *)
(* batch_csv_to_geojson (core/csv_to_geojson_lib.py) and extract_embedded  *)
(* (core/extract_embedded_lib.py).  The three pipelines share no state; a  *)
(* behaviour runs one of them, selected by the variable pipeline.          *)
(*                                                                         *)
(* JSON values are modelled as records of one shape per kind so that every *)
(* value can be compared with every other.  sha256 is modelled as          *)
(* injective: a fingerprint is the canonical serialization itself.         *)
(***************************************************************************)
EXTENDS Integers, Sequences, FiniteSets, TLC

VARIABLES
    pipeline,      \* which pipeline this behaviour runs: "merge", "csv", "extract"
    pc,            \* position of the running call: "idle", "loop", "done", "raised"
    raised,        \* the exception the call ended with ("" when none)
    \* ---- merge_geojson ----
    in_dir_ok,     \* Path(input_folder).is_dir()
    paths,         \* the discovered *.geojson files, in sorted order (their contents)
    add_bbox,      \* the add_bbox argument of the running call
    idx,           \* index in paths of the next file of the for loop
    all_features,  \* all_features
    seen,          \* seen
    errors,        \* errors: sequence of <<path index, message>>
    fs,            \* output folder: fs[i] is the file <stem>.geojson (i = 0) or
                   \* <stem>_i.geojson; -1 absent, 0 written by someone else, r by run r
    run,           \* number of merge calls started so far
    final_out,     \* index of the path the last successful run wrote (-1 none)
    merged,        \* the document the last successful run wrote
    summary,       \* the summary the last successful run returned
    \* ---- feature_hash applied to two features ----
    pair,          \* the two features
    digests,       \* <<>> before the calls, then the two results of feature_hash
    \* ---- batch_csv_to_geojson ----
    csv_dir_ok,    \* Path(input_folder).is_dir()
    csv_files,     \* the discovered *.csv files, sorted: the family each is drawn from
    vertex_order_col, \* the vertex_order_col argument ("" is None)
    csv_idx,       \* index in csv_files of the next file of the for loop
    outputs,       \* outputs: sequence of <<source index, dest index, n>>
    csv_errors,    \* errors: sequence of <<source index, message>>
    csv_summary,   \* the summary batch_csv_to_geojson returned
    out_files,     \* the *.geojson files written, by source index: their features
    df,            \* the CSV the last convert_csv_to_geojson call read
    rows_used,     \* its rows in the order the groups were read (after sort_values)
    cols,          \* what resolve_columns returned in that call
    features,      \* the features list of that call
    \* ---- extract_embedded ----
    src_ok,        \* Path(src_folder) is a directory
    files_found,   \* files_found
    temp_root,     \* whether <out_folder>/temp exists
    ex_summary,    \* the summary extract_embedded returned
    ex_idx,        \* position of "for file in files_found" (1-based)
    archives,      \* what the containers opened so far turned out to hold
    temp_dirs,     \* <out_folder>/temp/<stem>, by stem: whether it exists, its entries
    out_dirs,      \* the directories made under <out_folder>, in the order made
    n_xlsx, n_zip, n_nested_zips, n_bin_processed, n_json_cleaned,
    n_zip_bins_extracted,
    ex_errors,     \* errors (the counter of extract_embedded)
    ex_outputs     \* outputs: sequence of <<container index, output path>>

mergeVars == <<in_dir_ok, paths, add_bbox, idx, all_features, seen, errors, fs,
               run, final_out, merged, summary>>

hashVars == <<pair, digests>>
csvVars == <<csv_dir_ok, csv_files, vertex_order_col, csv_idx, outputs, csv_errors,
             csv_summary, out_files, df, rows_used, cols, features>>
extractVars == <<src_ok, files_found, temp_root, ex_summary, ex_idx, archives,
                 temp_dirs, out_dirs, n_xlsx, n_zip, n_nested_zips, n_bin_processed,
                 n_json_cleaned, n_zip_bins_extracted, ex_errors, ex_outputs>>

vars == <<pipeline, pc, raised, mergeVars, hashVars, csvVars, extractVars>>

----------------------------------------------------------------------------
(* Bounds of the model.                                                    *)

MaxFiles == 2        \* files in the merge input folder
MaxRuns == 2         \* merge calls with the same output stem in one behaviour
MaxPre == 1          \* output paths <stem>[_i].geojson, i <= MaxPre, may pre-exist
MaxCsv == 2          \* files in the CSV input folder
MaxHeader == 4       \* columns of a CSV whose header row varies
MaxRows == 4         \* rows of a CSV whose rows vary
MaxContainers == 2   \* containers in the extract source folder
MaxTokens == 3        \* pieces a *.bin payload is put together from

----------------------------------------------------------------------------
(* Generic helpers.                                                        *)

Min2(a, b) == IF a <= b THEN a ELSE b
Max2(a, b) == IF a >= b THEN a ELSE b

RECURSIVE SelectSeqBy(_, _)
\* the elements of s whose first component is in keys, in the order of s
SelectSeqBy(s, keys) ==
    IF s = <<>> THEN <<>>
    ELSE IF Head(s)[1] \in keys THEN <<Head(s)>> \o SelectSeqBy(Tail(s), keys)
         ELSE SelectSeqBy(Tail(s), keys)

----------------------------------------------------------------------------
(* JSON values.                                                            *)

\* A coordinate structure: a number, a list, or None (the key is missing).
Num(n) == [k |-> "num", v |-> n, items |-> <<>>]
Arr(s) == [k |-> "list", v |-> 0, items |-> s]
NoCoords == [k |-> "none", v |-> 0, items |-> <<>>]
Pair(x, y) == Arr(<<Num(x), Num(y)>>)

GeomTypes == {"Point", "MultiPoint", "LineString", "MultiLineString", "Polygon",
              "MultiPolygon", "GeometryCollection"}

\* The value of a "geometry" member: missing, JSON null, or an object.  An object
\* without a "type" key has type "".
Geom(t, c, gs) == [k |-> "object", type |-> t, coordinates |-> c, geometries |-> gs]
GAbsent == [k |-> "absent", type |-> "", coordinates |-> NoCoords, geometries |-> <<>>]
GNull == [k |-> "null", type |-> "", coordinates |-> NoCoords, geometries |-> <<>>]
GEmpty == Geom("", NoCoords, <<>>)
Point(x, y) == Geom("Point", Pair(x, y), <<>>)
LineString(ps) == Geom("LineString", Arr(ps), <<>>)
GeometryCollection(gs) == Geom("GeometryCollection", NoCoords, gs)

\* The value of a "properties" member: missing, JSON null, or a dict, which keeps
\* its insertion order: a sequence of <<key, value>> with distinct keys.
PAbsent == [k |-> "absent", items |-> <<>>]
PNull == [k |-> "null", items |-> <<>>]
Dict(items) == [k |-> "dict", items |-> items]

\* A parsed JSON value as to_features reads it.  json = "other" is a value that is
\* no object (an array, a number, a string, null): it has no .get.  type "" is a
\* missing "type", type "[]" a "type" whose value is a list (unhashable).
Value(j, t, g, p, self, fts) ==
    [json |-> j, type |-> t, geometry |-> g, properties |-> p, self |-> self,
     features |-> fts]
FeatureV(g, p) == Value("object", "Feature", g, p, GAbsent, <<>>)
GeomV(g) == Value("object", g.type, GAbsent, PAbsent, g, <<>>)
OtherV(t) == Value("object", t, GAbsent, PAbsent, GAbsent, <<>>)
ScalarV == Value("other", "", GAbsent, PAbsent, GAbsent, <<>>)
CollectionV(ms) == Value("object", "FeatureCollection", GAbsent, PAbsent, GAbsent, ms)

\* A Feature as merge holds it.
Feature(g, p) == [type |-> "Feature", geometry |-> g, properties |-> p]

----------------------------------------------------------------------------
(* feature_hash.                                                           *)

\* Every property key of the model, in the order json.dumps(sort_keys=True)
\* puts them (by code point: upper case before lower case).
KeyOrder == <<"ProducerCountry", "ProductionPlace", "a", "b">>

\* a bug: the dict is serialized in insertion order (sort_keys left out)
SortedItems_Unsorted(items, order) == items

RECURSIVE SortedItems(_, _)
\* json.dumps(..., sort_keys=True) on a dict: the items ordered by key
SortedItems(items, order) ==
    IF order = <<>> THEN <<>>
    ELSE SelectSeqBy(items, {Head(order)}) \o SortedItems(items, Tail(order))

\* the dict comprehension of feature_hash: the items whose key is not a
\* provenance key, in insertion order
HashedProps(items) ==
    SelectSeqBy(items, {KeyOrder[i] : i \in 1..Len(KeyOrder)}
                        \ {"ProductionPlace", "ProducerCountry"})

NoDigest == [geometry |-> GAbsent, properties |-> <<>>]

\* feature_hash(feature): raised is TRUE when .items() is called on None
\* ("properties": null); else digest is the canonical serialization that is hashed.
feature_hash(feature) ==
    LET geom == IF feature.geometry.k = "absent" THEN GEmpty ELSE feature.geometry
        props == feature.properties
    IN  IF props.k = "null"
        THEN [raised |-> TRUE, digest |-> NoDigest]
        ELSE [raised |-> FALSE,
              digest |-> [geometry |-> geom,
                          properties |-> SortedItems(HashedProps(props.items), KeyOrder)]]

----------------------------------------------------------------------------
(* to_features.                                                            *)

RECURSIVE SetItem(_, _, _)
\* d[key] = value on a dict: an existing key keeps its place, a new one goes last
SetItem(items, key, value) ==
    IF items = <<>> THEN <<<<key, value>>>>
    ELSE IF Head(items)[1] = key THEN <<<<key, value>>>> \o Tail(items)
         ELSE <<Head(items)>> \o SetItem(Tail(items), key, value)

\* a bug: "properties": null is let through instead of raising
add_props_Lenient(f, file_name, producer_country) ==
    LET props == IF f.properties.k = "absent" THEN Dict(<<>>) ELSE f.properties
    IN  IF props.k = "null"
        THEN [ok |-> TRUE, f |-> Feature(f.geometry, props)]
        ELSE [ok |-> TRUE,
              f |-> Feature(f.geometry,
                            Dict(SetItem(SetItem(props.items, "ProductionPlace", file_name),
                                         "ProducerCountry", producer_country)))]

\* add_props(f): ok is FALSE when f["properties"] is None (item assignment raises)
add_props(f, file_name, producer_country) ==
    LET props == IF f.properties.k = "absent" THEN Dict(<<>>) ELSE f.properties
    IN  IF props.k = "null"
        THEN [ok |-> FALSE, f |-> Feature(f.geometry, props)]
        ELSE [ok |-> TRUE,
              f |-> Feature(f.geometry,
                            Dict(SetItem(SetItem(props.items, "ProductionPlace", file_name),
                                         "ProducerCountry", producer_country)))]

\* the synthetic Feature built around a bare geometry
Wrap(g, file_name, producer_country) ==
    Feature(g, Dict(<<<<"ProductionPlace", file_name>>,
                      <<"ProducerCountry", producer_country>>>>))

RECURSIVE CollectMembers(_, _, _, _)
\* the for loop over obj["features"]: ok is FALSE when a member raises
CollectMembers(ms, file_name, producer_country, acc) ==
    IF ms = <<>> THEN [ok |-> TRUE, features |-> acc]
    ELSE LET f == Head(ms) IN
         IF f.json # "object" THEN [ok |-> FALSE, features |-> acc]
         ELSE IF f.type = "Feature"
         THEN LET a == add_props(f, file_name, producer_country) IN
              IF a.ok
              THEN CollectMembers(Tail(ms), file_name, producer_country, Append(acc, a.f))
              ELSE [ok |-> FALSE, features |-> acc]
         ELSE IF f.type = "[]" THEN [ok |-> FALSE, features |-> acc]
         ELSE IF f.type \in GeomTypes
         THEN CollectMembers(Tail(ms), file_name, producer_country,
                             Append(acc, Wrap(f.self, file_name, producer_country)))
         ELSE CollectMembers(Tail(ms), file_name, producer_country, acc)

\* to_features(obj, source_name, producer_country): ok is FALSE when it raises
to_features(obj, file_name, producer_country) ==
    IF obj.json # "object" THEN [ok |-> FALSE, features |-> <<>>]
    ELSE IF obj.type = "FeatureCollection"
    THEN LET r == CollectMembers(obj.features, file_name, producer_country, <<>>)
         IN  IF r.ok THEN r ELSE [ok |-> FALSE, features |-> <<>>]
    ELSE IF obj.type = "Feature"
    THEN LET a == add_props(obj, file_name, producer_country) IN
         IF a.ok THEN [ok |-> TRUE, features |-> <<a.f>>]
         ELSE [ok |-> FALSE, features |-> <<>>]
    ELSE IF obj.type = "[]" THEN [ok |-> FALSE, features |-> <<>>]
    ELSE IF obj.type \in GeomTypes
    THEN [ok |-> TRUE, features |-> <<Wrap(obj.self, file_name, producer_country)>>]
    ELSE [ok |-> TRUE, features |-> <<>>]

----------------------------------------------------------------------------
(* compute_bbox.                                                           *)

RECURSIVE walk_coords(_, _)
RECURSIVE walk_items(_, _)
\* acc is <<>> (four None) or <<minx, miny, maxx, maxy>>
walk_coords(coords, acc) ==
    IF coords.k # "list" THEN acc
    ELSE IF Len(coords.items) >= 2 /\ coords.items[1].k = "num" /\ coords.items[2].k = "num"
    THEN LET x == coords.items[1].v
             y == coords.items[2].v
         IN  IF acc = <<>> THEN <<x, y, x, y>>
             ELSE <<Min2(acc[1], x), Min2(acc[2], y), Max2(acc[3], x), Max2(acc[4], y)>>
    ELSE walk_items(coords.items, acc)

walk_items(items, acc) ==
    IF items = <<>> THEN acc
    ELSE walk_items(Tail(items), walk_coords(Head(items), acc))

RECURSIVE walk_children(_, _)
\* for g in geom.get("geometries", []): walk_coords(g.get("coordinates"), acc)
walk_children(gs, acc) ==
    IF gs = <<>> THEN acc
    ELSE walk_children(Tail(gs), walk_coords(Head(gs).coordinates, acc))

\* "if not geom": None and {} are falsy
Falsy(geom) == geom.k # "object" \/ geom = GEmpty

RECURSIVE bbox_fold(_, _)
bbox_fold(fts, acc) ==
    IF fts = <<>> THEN acc
    ELSE LET geom == Head(fts).geometry
             next == IF Falsy(geom) THEN acc
                     ELSE IF geom.coordinates.k = "none" /\ geom.type = "GeometryCollection"
                          THEN walk_children(geom.geometries, acc)
                          ELSE walk_coords(geom.coordinates, acc)
         IN  bbox_fold(Tail(fts), next)

\* compute_bbox(features): <<>> is None
compute_bbox(fts) == bbox_fold(fts, <<>>)

----------------------------------------------------------------------------
(* merge_geojson: inputs.                                                  *)

\* Path(p).stem of the i-th discovered path, and the producer_country argument
FileStems == <<"f1", "f2", "f3", "f4">>
Country == "NZ"

\* a file of the input folder: readable is FALSE when read_text or json.loads raises
File(v) == [readable |-> TRUE, data |-> v]
BadFile == [readable |-> FALSE, data |-> ScalarV]

PtA == Point(1, 2)
PtB == Point(3, 0)
Line == LineString(<<Pair(0, 0), Pair(4, 1)>>)
Flat == GeometryCollection(<<Point(5, 5), Line>>)
Nested == GeometryCollection(<<GeometryCollection(<<Point(7, 7)>>)>>)

PropsAB == Dict(<<<<"a", "v1">>, <<"b", "v2">>>>)
PropsBA == Dict(<<<<"b", "v2">>, <<"a", "v1">>>>)
PropsA == Dict(<<<<"a", "v1">>>>)
PropsOld == Dict(<<<<"ProductionPlace", "old">>, <<"b", "v2">>, <<"a", "v1">>,
                   <<"ProducerCountry", "DE">>>>)

\* what a *.geojson file of the input folder may hold
FileContents ==
    { BadFile,
      File(ScalarV), File(OtherV("")), File(OtherV("Topology")), File(OtherV("[]")),
      File(GeomV(PtA)), File(GeomV(Nested)),
      File(FeatureV(PtA, PAbsent)), File(FeatureV(PtA, PNull)),
      File(FeatureV(PtA, PropsAB)), File(FeatureV(PtA, PropsOld)),
      File(FeatureV(PtB, PropsAB)),
      File(FeatureV(GAbsent, PropsA)), File(FeatureV(GEmpty, PropsA)),
      File(FeatureV(GNull, PropsA)),
      File(CollectionV(<<>>)),
      File(CollectionV(<<FeatureV(PtA, Dict(<<>>))>>)),
      File(CollectionV(<<FeatureV(PtA, PropsBA), GeomV(Flat), OtherV("Topology")>>)),
      File(CollectionV(<<FeatureV(PtB, PropsA), ScalarV>>)),
      File(CollectionV(<<FeatureV(PtB, PropsA), FeatureV(PtA, PNull)>>)) }

\* the folders used where the output folder already holds files
PlainContents == {BadFile, File(GeomV(PtA))}

SeqsUpTo(S, n) == UNION {[1..m -> S] : m \in 0..n}

\* the paths <stem>.geojson (0) and <stem>_i.geojson (i) of the output folder
OutPaths == 0..(MaxPre + MaxRuns + 1)

----------------------------------------------------------------------------
(* merge_geojson: the call.                                                *)

RECURSIVE FoldFeatures(_, _, _)
\* for feat in to_features(...): h = feature_hash(feat); if h not in seen: ...
\* raised is TRUE when feature_hash raises; what was kept before stays kept
FoldFeatures(feats, sn, kept) ==
    IF feats = <<>> THEN [raised |-> FALSE, seen |-> sn, all_features |-> kept]
    ELSE LET h == feature_hash(Head(feats)) IN
         IF h.raised THEN [raised |-> TRUE, seen |-> sn, all_features |-> kept]
         ELSE IF h.digest \notin sn
         THEN FoldFeatures(Tail(feats), sn \cup {h.digest}, Append(kept, Head(feats)))
         ELSE FoldFeatures(Tail(feats), sn, kept)

\* a bug: the path is taken as given, whether or not it exists
Probe_TakeAsGiven(files, i) == i

RECURSIVE Probe(_, _)
\* final_out = out_file; i = 1; while final_out.exists(): final_out = <stem>_i; i += 1
Probe(files, i) == IF files[i] = -1 THEN i ELSE Probe(files, i + 1)

\* a bug: the except clause swallows the failure without recording it
RecordError_Swallow(errs, p, message) == errs

\* errors.append((p, str(e)))
RecordError(errs, p, message) == Append(errs, <<p, message>>)

\* merge_geojson is called: input validation, discovery, the empty containers
MergeStart ==
    /\ pipeline = "merge"
    /\ pc \in {"idle", "done", "raised"}
    /\ run < MaxRuns
    /\ run' = run + 1
    /\ \E b \in BOOLEAN : add_bbox' = b
    /\ all_features' = <<>>
    /\ seen' = {}
    /\ errors' = <<>>
    /\ idx' = 1
    /\ IF ~in_dir_ok THEN pc' = "raised" /\ raised' = "ValueError"
       ELSE IF paths = <<>> THEN pc' = "raised" /\ raised' = "FileNotFoundError"
       ELSE pc' = "loop" /\ raised' = ""
    /\ UNCHANGED <<pipeline, in_dir_ok, paths, fs, final_out, merged, summary>>
    /\ UNCHANGED <<hashVars, csvVars, extractVars>>

\* one iteration of "for p in paths": the try block and its except clause
MergeFile ==
    /\ pipeline = "merge"
    /\ pc = "loop"
    /\ idx <= Len(paths)
    /\ LET file == paths[idx]
           r == to_features(file.data, FileStems[idx], Country)
           fold == FoldFeatures(r.features, seen, all_features)
       IN  IF ~file.readable
           THEN /\ errors' = RecordError(errors, idx, "read or parse failure")
                /\ UNCHANGED <<seen, all_features>>
           ELSE IF ~r.ok
           THEN /\ errors' = RecordError(errors, idx, "to_features raised")
                /\ UNCHANGED <<seen, all_features>>
           ELSE /\ seen' = fold.seen
                /\ all_features' = fold.all_features
                /\ errors' = IF fold.raised
                             THEN RecordError(errors, idx, "feature_hash raised")
                             ELSE errors
    /\ idx' = idx + 1
    /\ UNCHANGED <<pipeline, pc, raised, in_dir_ok, paths, add_bbox, fs, run,
                   final_out, merged, summary>>
    /\ UNCHANGED <<hashVars, csvVars, extractVars>>

\* after the loop: the empty check, the bbox, the collision-safe write, the summary
MergeFinish ==
    /\ pipeline = "merge"
    /\ pc = "loop"
    /\ idx > Len(paths)
    /\ IF all_features = <<>>
       THEN /\ pc' = "raised"
            /\ raised' = "RuntimeError"
            /\ UNCHANGED <<fs, final_out, merged, summary>>
       ELSE LET bbox == IF add_bbox THEN compute_bbox(all_features) ELSE <<>>
                out == Probe(fs, 0)
            IN  /\ pc' = "done"
                /\ raised' = ""
                /\ merged' = [type |-> "FeatureCollection", features |-> all_features,
                              bbox |-> bbox]
                /\ fs' = [fs EXCEPT ![out] = run]
                /\ final_out' = out
                /\ summary' = [files_scanned |-> Len(paths),
                               unique_features |-> Len(all_features),
                               errors |-> errors,
                               producer_country |-> Country,
                               included_bbox |-> bbox # <<>>]
    /\ UNCHANGED <<pipeline, in_dir_ok, paths, add_bbox, idx, all_features, seen,
                   errors, run>>
    /\ UNCHANGED <<hashVars, csvVars, extractVars>>

NoDocument == [type |-> "", features |-> <<>>, bbox |-> <<>>]
NoSummary == [files_scanned |-> 0, unique_features |-> 0, errors |-> <<>>,
              producer_country |-> "", included_bbox |-> FALSE]

\* the variables of a pipeline that is not the one running
IdleMerge ==
    /\ in_dir_ok = FALSE
    /\ paths = <<>>
    /\ fs = [i \in OutPaths |-> -1]
    /\ add_bbox = FALSE
    /\ idx = 1
    /\ all_features = <<>>
    /\ seen = {}
    /\ errors = <<>>
    /\ run = 0
    /\ final_out = -1
    /\ merged = NoDocument
    /\ summary = NoSummary

IdleHash == pair = <<>> /\ digests = <<>>

NoCsv == [readable |-> FALSE, header |-> <<>>, rows |-> <<>>]
NoCsvSummary == [inputs |-> 0, outputs |-> 0, written |-> <<>>, errors |-> <<>>]

IdleCsv ==
    /\ csv_dir_ok = FALSE
    /\ csv_files = <<>>
    /\ vertex_order_col = ""
    /\ csv_idx = 1
    /\ outputs = <<>>
    /\ csv_errors = <<>>
    /\ csv_summary = NoCsvSummary
    /\ out_files = <<>>
    /\ df = NoCsv
    /\ rows_used = <<>>
    /\ cols = <<>>
    /\ features = <<>>

NoExtractSummary ==
    [xlsx |-> -1, zip |-> -1, nested_zips |-> -1, bin_processed |-> -1,
     zip_bins_extracted |-> -1, json_cleaned |-> -1, errors |-> -1, outputs |-> <<>>]

\* the container stems of the model, and a temp directory that does not exist
Stems == {"a", "b"}
NoDir == [exists |-> FALSE, entries |-> <<>>]

\* extract_embedded before its first statement: nothing made, nothing counted
ExtractFresh ==
    /\ temp_root = FALSE
    /\ ex_summary = NoExtractSummary
    /\ ex_idx = 1
    /\ archives = <<>>
    /\ temp_dirs = [s \in Stems |-> NoDir]
    /\ out_dirs = <<>>
    /\ n_xlsx = 0 /\ n_zip = 0 /\ n_nested_zips = 0 /\ n_bin_processed = 0
    /\ n_json_cleaned = 0 /\ n_zip_bins_extracted = 0
    /\ ex_errors = 0
    /\ ex_outputs = <<>>

IdleExtract ==
    /\ src_ok = FALSE
    /\ files_found = <<>>
    /\ ExtractFresh

\* before the first call: a folder of files to merge, the output folder empty; or
\* a plain folder and an output folder that already holds some of the paths
InitMerge ==
    /\ pipeline = "merge"
    /\ pc = "idle"
    /\ raised = ""
    /\ \/ /\ in_dir_ok = TRUE
          /\ paths \in SeqsUpTo(FileContents, MaxFiles)
          /\ fs = [i \in OutPaths |-> -1]
       \/ /\ in_dir_ok = TRUE
          /\ paths \in SeqsUpTo(PlainContents, MaxFiles)
          /\ \E pre \in SUBSET (0..MaxPre) :
                 fs = [i \in OutPaths |-> IF i \in pre THEN 0 ELSE -1]
       \/ /\ in_dir_ok = FALSE
          /\ paths = <<>>
          /\ fs = [i \in OutPaths |-> -1]
    /\ add_bbox = FALSE
    /\ idx = 1
    /\ all_features = <<>>
    /\ seen = {}
    /\ errors = <<>>
    /\ run = 0
    /\ final_out = -1
    /\ merged = NoDocument
    /\ summary = NoSummary
    /\ IdleHash /\ IdleCsv /\ IdleExtract

NextMerge == MergeStart \/ MergeFile \/ MergeFinish

SpecMerge == InitMerge /\ [][NextMerge]_vars

----------------------------------------------------------------------------
(* What the claims about merge speak of.                                   *)

\* the property mapping a "properties" member stands for, without the provenance
\* keys and without the order of its keys
PropsMap(p) ==
    {p.items[i] : i \in {j \in 1..Len(p.items) :
                            p.items[j][1] \notin {"ProductionPlace", "ProducerCountry"}}}

\* the fingerprint the specification gives a feature: geometry plus properties
\* minus provenance; null or missing properties are the empty mapping
Fingerprint(g, p) == <<g, PropsMap(p)>>

\* the features a JSON value holds: a Feature, a bare geometry, or the members of
\* a FeatureCollection that are one of the two
IsFeatureLike(v) == v.json = "object" /\ v.type \in GeomTypes \cup {"Feature"}
FingerprintOfValue(v) ==
    IF v.type = "Feature" THEN Fingerprint(v.geometry, v.properties)
    ELSE Fingerprint(v.self, PAbsent)
FingerprintsOfFile(file) ==
    IF ~file.readable \/ file.data.json # "object" THEN {}
    ELSE IF file.data.type = "FeatureCollection"
    THEN {FingerprintOfValue(file.data.features[i]) :
            i \in {j \in 1..Len(file.data.features) :
                     IsFeatureLike(file.data.features[j])}}
    ELSE IF IsFeatureLike(file.data) THEN {FingerprintOfValue(file.data)}
    ELSE {}

\* a geometry value GeoJSON allows in a Feature: null or a geometry object
WellFormedGeometry(g) == g.k = "null" \/ (g.k = "object" /\ g.type \in GeomTypes)
WellFormedFeature(v) ==
    v.json = "object" /\ v.type = "Feature" /\ WellFormedGeometry(v.geometry)
\* a well-formed GeoJSON file: a geometry, a Feature or a FeatureCollection of
\* Features; "properties" may be an object, null or missing
WellFormedFile(file) ==
    /\ file.readable
    /\ file.data.json = "object"
    /\ \/ file.data.type \in GeomTypes
       \/ WellFormedFeature(file.data)
       \/ /\ file.data.type = "FeatureCollection"
          /\ \A i \in 1..Len(file.data.features) : WellFormedFeature(file.data.features[i])

HasNullProps(v) == v.json = "object" /\ v.type = "Feature" /\ v.properties.k = "null"
FileHasNullProps(file) ==
    /\ file.readable
    /\ \/ HasNullProps(file.data)
       \/ \E i \in 1..Len(file.data.features) : HasNullProps(file.data.features[i])

\* the Features and bare geometries a file holds, and what to_features makes of one
FeatureLikeOfFile(file) ==
    IF ~file.readable \/ file.data.json # "object" THEN {}
    ELSE IF file.data.type = "FeatureCollection"
    THEN {file.data.features[i] :
            i \in {j \in 1..Len(file.data.features) :
                     IsFeatureLike(file.data.features[j])}}
    ELSE IF IsFeatureLike(file.data) THEN {file.data}
    ELSE {}
Normalized(v, i) ==
    IF v.type = "Feature" THEN add_props(v, FileStems[i], Country).f
    ELSE Wrap(v.self, FileStems[i], Country)

ErrorsFor(i) == {j \in 1..Len(errors) : errors[j][1] = i}
LoopOver == pc \in {"done", "raised"} /\ raised \notin {"ValueError", "FileNotFoundError"}
                /\ run > 0

\* C1: for well-formed GeoJSON input files (Features with null or missing
\* properties included) merge writes a FeatureCollection whose features have
\* pairwise different fingerprints and whose feature count equals the number of
\* distinct fingerprints across all features of all input files.
C1_MergeKeepsOnePerFingerprint ==
    (LoopOver /\ \A i \in 1..Len(paths) : WellFormedFile(paths[i]))
        => LET all == UNION {FingerprintsOfFile(paths[i]) : i \in 1..Len(paths)}
               kept == all_features
           IN  /\ all # {} => pc = "done"
               /\ Len(kept) = Cardinality(all)
               /\ \A i, j \in 1..Len(kept) :
                      i # j => Fingerprint(kept[i].geometry, kept[i].properties)
                               # Fingerprint(kept[j].geometry, kept[j].properties)

\* C3: a file that cannot be read or parsed never aborts the batch: it gets
\* exactly one entry in errors, and every file after it is still processed, the
\* features of each file that normalizes being folded into the result.
C3_BadFileRecordedBatchGoesOn ==
    /\ (pipeline = "merge" /\ pc = "raised" /\ raised = "RuntimeError") => idx > Len(paths)
    /\ (pipeline = "merge" /\ pc = "done") => idx > Len(paths)
    /\ (pipeline = "merge"
          /\ (pc \in {"loop", "done"} \/ (pc = "raised" /\ raised = "RuntimeError")))
        => \A i \in 1..Len(paths) :
              (i < idx /\ ~paths[i].readable)
                  => /\ Cardinality(ErrorsFor(i)) = 1
                     /\ \A j \in (i + 1)..Len(paths) :
                           (pc # "loop" \/ j < idx)
                              => LET r == to_features(paths[j].data, FileStems[j], Country)
                                 IN  IF paths[j].readable /\ r.ok
                                     THEN /\ ErrorsFor(j) = {}
                                          /\ \A n \in 1..Len(r.features) :
                                                feature_hash(r.features[n]).digest \in seen
                                     ELSE Cardinality(ErrorsFor(j)) = 1

C3_Witness ==
    /\ pipeline = "merge" /\ pc = "done"
    /\ Len(paths) = 2 /\ ~paths[1].readable
    /\ errors = <<<<1, "read or parse failure">>>>
    /\ Len(all_features) = 1

\* C4: no successful merge run overwrites or modifies a file that existed before
\* it: it writes <stem>.geojson when that path is free, and otherwise a path with
\* a numeric suffix that did not exist before the run.
C4_RunsNeverOverwrite ==
    [][ /\ \A i \in OutPaths : fs[i] # -1 => fs'[i] = fs[i]
        /\ (pipeline = "merge" /\ pc = "loop" /\ pc' = "done")
             => /\ fs[final_out'] = -1
                /\ fs'[final_out'] = run
                /\ \A i \in OutPaths \ {final_out'} : fs'[i] = fs[i]
                /\ (final_out' = 0) <=> (fs[0] = -1) ]_vars

C4_Witness ==
    /\ pipeline = "merge" /\ pc = "done" /\ run = 2
    /\ fs[0] = 1 /\ fs[1] = 2 /\ final_out = 1

\* C6: non-feature content is never a merge error: a file that parses as JSON adds
\* no entry to errors whatever its top-level value or the members of its
\* collection are, and every member that is a Feature or a bare geometry is kept.
C6_NonFeatureContentIsNoError ==
    (pipeline = "merge" /\ pc \in {"loop", "done"})
        => \A i \in 1..Len(paths) :
              (i < idx /\ paths[i].readable /\ ~FileHasNullProps(paths[i]))
                  => /\ ErrorsFor(i) = {}
                     /\ \A v \in FeatureLikeOfFile(paths[i]) :
                           feature_hash(Normalized(v, i)).digest \in seen

RECURSIVE PairsOfCoords(_)
\* the coordinate pairs of a coordinate structure: a list whose first two
\* elements are numbers is a pair, any other list is searched
PairsOfCoords(c) ==
    IF c.k # "list" THEN {}
    ELSE IF Len(c.items) >= 2 /\ c.items[1].k = "num" /\ c.items[2].k = "num"
    THEN {<<c.items[1].v, c.items[2].v>>}
    ELSE UNION {PairsOfCoords(c.items[i]) : i \in 1..Len(c.items)}

RECURSIVE PairsOfGeometry(_)
\* every coordinate pair reachable from a geometry, GeometryCollection children
\* at any depth included
PairsOfGeometry(g) ==
    IF g.k # "object" THEN {}
    ELSE IF g.type = "GeometryCollection"
    THEN UNION {PairsOfGeometry(g.geometries[i]) : i \in 1..Len(g.geometries)}
    ELSE PairsOfCoords(g.coordinates)

PairsOfFeatures(fts) == UNION {PairsOfGeometry(fts[i].geometry) : i \in 1..Len(fts)}

\* the tight envelope [minX, minY, maxX, maxY] of a set of pairs; <<>> when empty
Envelope(ps) ==
    IF ps = {} THEN <<>>
    ELSE <<CHOOSE x \in {p[1] : p \in ps} : \A q \in ps : x <= q[1],
           CHOOSE y \in {p[2] : p \in ps} : \A q \in ps : y <= q[2],
           CHOOSE x \in {p[1] : p \in ps} : \A q \in ps : x >= q[1],
           CHOOSE y \in {p[2] : p \in ps} : \A q \in ps : y >= q[2]>>

\* C7: with add_bbox the bbox merge writes is the tight envelope over every
\* coordinate pair reachable from every kept feature's geometry,
\* GeometryCollection children at any nesting depth included; the key is left
\* out, and included_bbox is false, exactly when no pair is reachable.
C7_BboxIsTightEnvelope ==
    (pipeline = "merge" /\ pc = "done" /\ add_bbox)
        => /\ merged.bbox = Envelope(PairsOfFeatures(merged.features))
           /\ summary.included_bbox = (PairsOfFeatures(merged.features) # {})

----------------------------------------------------------------------------
(* feature_hash applied to two features.                                   *)

SampleGeometries == {PtA, PtB, Flat, GAbsent, GEmpty, GNull}
SampleProperties ==
    { PAbsent, PNull, Dict(<<>>), PropsA, PropsAB, PropsBA, PropsOld,
      Dict(<<<<"a", "v2">>>>), Dict(<<<<"b", "v2">>>>),
      Dict(<<<<"a", "v1">>, <<"b", "v2">>, <<"ProductionPlace", "f1">>,
             <<"ProducerCountry", "NZ">>>>),
      Dict(<<<<"ProductionPlace", "f2">>, <<"ProducerCountry", "NZ">>>>) }
SampleFeatures == {Feature(g, p) : g \in SampleGeometries, p \in SampleProperties}

InitHash ==
    /\ pipeline = "hash"
    /\ pc = "idle"
    /\ raised = ""
    /\ pair \in SampleFeatures \X SampleFeatures
    /\ digests = <<>>
    /\ IdleMerge /\ IdleCsv /\ IdleExtract

\* h = feature_hash(feat), for both features
HashPair ==
    /\ pipeline = "hash"
    /\ pc = "idle"
    /\ digests' = <<feature_hash(pair[1]), feature_hash(pair[2])>>
    /\ pc' = "done"
    /\ UNCHANGED <<pipeline, raised, pair, mergeVars, csvVars, extractVars>>

NextHash == HashPair

SpecHash == InitHash /\ [][NextHash]_vars

BothHashed == pipeline = "hash" /\ pc = "done" /\ ~digests[1].raised /\ ~digests[2].raised

\* C2 as stated: two features get equal fingerprints exactly when they have the
\* same geometry and the same properties apart from ProductionPlace and
\* ProducerCountry, whatever the order of the property keys and the provenance.
C2_EqualIffSameContent ==
    BothHashed
        => ((digests[1].digest = digests[2].digest)
              <=> (/\ pair[1].geometry = pair[2].geometry
                   /\ PropsMap(pair[1].properties) = PropsMap(pair[2].properties)))

\* a missing "geometry" member read as feature_hash reads it: the empty object
GeometryOrEmpty(g) == IF g.k = "absent" THEN GEmpty ELSE g

\* C2, amended: as above, except that a feature without a "geometry" member and
\* one whose geometry is the empty object {} count as having the same geometry.
C2_EqualIffSameContentModuloMissing ==
    BothHashed
        => ((digests[1].digest = digests[2].digest)
              <=> (/\ GeometryOrEmpty(pair[1].geometry) = GeometryOrEmpty(pair[2].geometry)
                   /\ PropsMap(pair[1].properties) = PropsMap(pair[2].properties)))

C2_Witness ==
    /\ BothHashed
    /\ pair[1] = Feature(PtA, PropsAB)
    /\ pair[2] = Feature(PtA, PropsOld)
    /\ digests[1].digest = digests[2].digest

----------------------------------------------------------------------------
(* csv_to_geojson_lib: resolve_columns.                                    *)

Range(f) == {f[i] : i \in DOMAIN f}

COLUMN_ALIASES ==
    [c \in {"polygon_id", "longitude", "latitude", "producer", "forest",
            "date_start", "date_end", "percent_supply", "under_4ha"} |->
        CASE c = "polygon_id" -> <<"Polygon #", "Polygon", "Plot ID", "ShapeID">>
          [] c = "longitude" -> <<"Longitude", "Lon", "LONG", "X">>
          [] c = "latitude" -> <<"Latitude", "Lat", "LAT", "Y">>
          [] c = "producer" -> <<"Log Supplier", "Supplier", "ProducerName">>
          [] c = "forest" -> <<"Forest Name", "Forest", "ProductionPlace">>
          [] c = "date_start" -> <<"Harvest Start Date", "Start Date">>
          [] c = "date_end" -> <<"Latest supplied Harvest Date", "End Date">>
          [] c = "percent_supply" -> <<"% of Supply", "Percent Supply">>
          [] c = "under_4ha" -> <<"Under 4Ha?", "Under4Ha">>]

RECURSIVE FirstMatch_HeaderOrder(_, _)
\* a bug: the header row is scanned and its first accepted name wins
FirstMatch_HeaderOrder(options, columns) ==
    IF columns = <<>> THEN ""
    ELSE IF Head(columns) \in Range(options) THEN Head(columns)
         ELSE FirstMatch_HeaderOrder(options, Tail(columns))

RECURSIVE FirstMatch(_, _)
\* next((c for c in options if c in df.columns), None); "" is None
FirstMatch(options, columns) ==
    IF options = <<>> THEN ""
    ELSE IF Head(options) \in Range(columns) THEN Head(options)
         ELSE FirstMatch(Tail(options), columns)

resolve_columns(columns, aliases) ==
    [c \in DOMAIN aliases |-> FirstMatch(aliases[c], columns)]

----------------------------------------------------------------------------
(* csv_to_geojson_lib: convert_csv_to_geojson.                             *)

\* A cell of the data frame: a number (or text float() accepts), a missing value
\* (NaN), or other text; v orders cells of one kind.
NumCell(n) == [k |-> "num", v |-> n]
NullCell == [k |-> "null", v |-> 0]
StrCell(n) == [k |-> "str", v |-> n]
NoneCell == [k |-> "none", v |-> 0]

\* A CSV file: readable is FALSE when pd.read_csv raises; a row is a sequence of
\* cells, one per column of the header.
Csv(h, rs) == [readable |-> TRUE, header |-> h, rows |-> rs]

ColIndex(header, name) == CHOOSE j \in 1..Len(header) : header[j] = name
CellOf(header, row, name) == row[ColIndex(header, name)]

\* pd.notnull(x) and pd.notnull(y), and float() accepts both
ValidPair(x, y) == x.k = "num" /\ y.k = "num"

RECURSIVE ValidCoords(_, _, _, _)
\* the loop over zip(group[longitude], group[latitude])
ValidCoords(header, rows, lon, lat) ==
    IF rows = <<>> THEN <<>>
    ELSE LET x == CellOf(header, Head(rows), lon)
             y == CellOf(header, Head(rows), lat)
             rest == ValidCoords(header, Tail(rows), lon, lat)
         IN  IF ValidPair(x, y) THEN <<<<x.v, y.v>>>> \o rest ELSE rest

\* a bug: the ring is closed by hand whatever its last pair is
exterior_coords_AlwaysClose(coords) == Append(coords, coords[1])

\* list(Polygon(coords).exterior.coords): shapely closes the ring by repeating
\* the first pair when the last differs from it or when there are only 3 pairs
exterior_coords(coords) ==
    IF Len(coords) = 3 \/ coords[1] # coords[Len(coords)]
    THEN Append(coords, coords[1])
    ELSE coords

\* the geometry of a group with at least one valid pair; the coordinates of a
\* Point are held as a one-pair sequence, those of a Polygon as its exterior ring
GroupGeometry(coords) ==
    IF Len(coords) >= 3
    THEN [type |-> "Polygon", coordinates |-> exterior_coords(coords)]
    ELSE [type |-> "Point", coordinates |-> <<coords[1]>>]

\* first.get(cols[field]) if cols[field] else None
FirstGet(header, first, col) == IF col = "" THEN NoneCell ELSE CellOf(header, first, col)

GroupProps(header, first, c, poly_id, country) ==
    [polygon |-> poly_id,
     ProducerName |-> FirstGet(header, first, c["producer"]),
     ProductionPlace |-> FirstGet(header, first, c["forest"]),
     date_start |-> FirstGet(header, first, c["date_start"]),
     date_end |-> FirstGet(header, first, c["date_end"]),
     percent_supply |-> FirstGet(header, first, c["percent_supply"]),
     under_4ha |-> FirstGet(header, first, c["under_4ha"]),
     ProducerCountry |-> country]

RECURSIVE RowsWithId(_, _, _, _)
\* the group of a polygon identifier: its rows in frame order
RowsWithId(header, rows, idcol, id) ==
    IF rows = <<>> THEN <<>>
    ELSE IF CellOf(header, Head(rows), idcol).v = id
         THEN <<Head(rows)>> \o RowsWithId(header, Tail(rows), idcol, id)
         ELSE RowsWithId(header, Tail(rows), idcol, id)

GroupIds(header, rows, idcol) == {CellOf(header, rows[i], idcol).v : i \in 1..Len(rows)}

\* group.sort_values(by=vertex_order_col) applies to the groups of this frame
Sorts(header, vcol) == vcol # "" /\ vcol \in Range(header)

\* sort_values compares a number with text: TypeError
MixedKeys(header, grp, vcol) ==
    \E i, j \in 1..Len(grp) :
        CellOf(header, grp[i], vcol).k # CellOf(header, grp[j], vcol).k

\* what sort_values may return group by group: the rows ascending by key within
\* each group, rows with equal keys in any order (the default sort is not stable)
SortOutcomes(header, rows, idcol, vcol) ==
    IF idcol = "" \/ ~Sorts(header, vcol) THEN {rows}
    ELSE LET n == Len(rows)
             before(a, b) ==
                 \/ CellOf(header, a, idcol).v < CellOf(header, b, idcol).v
                 \/ /\ CellOf(header, a, idcol).v = CellOf(header, b, idcol).v
                    /\ \/ CellOf(header, a, vcol).k # CellOf(header, b, vcol).k
                       \/ CellOf(header, a, vcol).v <= CellOf(header, b, vcol).v
         IN  {[i \in 1..n |-> rows[q[i]]] :
                q \in {r \in Permutations(1..n) :
                         \A i, j \in 1..n : i < j => before(rows[r[i]], rows[r[j]])}}

RECURSIVE GroupLoop(_, _, _, _, _, _)
\* for poly_id, group in df.groupby(cols["polygon_id"]), ids ascending from id on:
\* raised is TRUE when sort_values raises in one of the groups
GroupLoop(header, rows, c, vcol, country, ids) ==
    IF ids = {} THEN [raised |-> FALSE, features |-> <<>>]
    ELSE LET id == CHOOSE i \in ids : \A j \in ids : i <= j
             grp == RowsWithId(header, rows, c["polygon_id"], id)
             coords == ValidCoords(header, grp, c["longitude"], c["latitude"])
             rest == GroupLoop(header, rows, c, vcol, country, ids \ {id})
         IN  IF Sorts(header, vcol) /\ MixedKeys(header, grp, vcol)
             THEN [raised |-> TRUE, features |-> <<>>]
             ELSE IF rest.raised THEN rest
             ELSE IF coords = <<>> THEN rest
             ELSE [raised |-> FALSE,
                   features |-> <<[type |-> "Feature",
                                   geometry |-> GroupGeometry(coords),
                                   properties |-> GroupProps(header, grp[1], c, id, country)]>>
                                \o rest.features]

\* convert_csv_to_geojson(input_path, output_path, country, vertex_order_col):
\* csv is what read_csv returns, sorted its rows as sort_values leaves them,
\* write_ok whether mkdir, json.dumps and write_text succeed.  raised is the
\* exception that leaves the function ("" none), n and err what it returns.
convert_csv_to_geojson(csv, country, vcol, sorted, write_ok) ==
    LET c == resolve_columns(csv.header, COLUMN_ALIASES)
        missing == {r \in {"polygon_id", "longitude", "latitude"} : c[r] = ""}
        loop == GroupLoop(csv.header, sorted, c, vcol, country,
                          GroupIds(csv.header, sorted, c["polygon_id"]))
        none == [c0 \in DOMAIN COLUMN_ALIASES |-> ""]
    IN  IF ~csv.readable
        THEN [raised |-> "", n |-> 0, err |-> "Failed to read", cols |-> none,
              features |-> <<>>, wrote |-> FALSE]
        ELSE IF missing # {}
        THEN [raised |-> "", n |-> 0, err |-> "Missing required column(s)", cols |-> c,
              features |-> <<>>, wrote |-> FALSE]
        ELSE IF loop.raised
        THEN [raised |-> "TypeError", n |-> 0, err |-> "", cols |-> c,
              features |-> <<>>, wrote |-> FALSE]
        ELSE IF write_ok
        THEN [raised |-> "", n |-> Len(loop.features), err |-> "", cols |-> c,
              features |-> loop.features, wrote |-> TRUE]
        ELSE [raised |-> "", n |-> 0, err |-> "Failed to write", cols |-> c,
              features |-> loop.features, wrote |-> FALSE]

----------------------------------------------------------------------------
(* batch_csv_to_geojson: inputs.                                           *)

\* Injective sequences over S of length at most n: header rows (pandas keeps
\* column names distinct).
RECURSIVE DistinctSeqs(_, _)
DistinctSeqs(S, n) ==
    IF n = 0 THEN {<<>>}
    ELSE LET shorter == DistinctSeqs(S, n - 1)
         IN  shorter \cup {Append(h, x) : h \in {g \in shorter : Len(g) = n - 1}, x \in S}

HeaderNames == {"Polygon #", "Longitude", "Lon", "Latitude", "longitude", "Forest"}
PlainHeader == <<"Polygon #", "Longitude", "Latitude">>
OrderHeader == <<"Polygon #", "Longitude", "Latitude", "Seq">>

\* rows <<id, longitude, latitude>>: two identifiers; two valid pairs, a missing
\* longitude and a latitude that is no number
PlainRows ==
    {<<NumCell(id), xy[1], xy[2]>> :
        id \in {1, 2},
        xy \in {<<NumCell(0), NumCell(0)>>, <<NumCell(1), NumCell(0)>>,
                <<NullCell, NumCell(0)>>, <<NumCell(0), StrCell(0)>>}}

\* rows <<id, longitude, latitude, Seq>> of one polygon: the order key is a
\* number or text
OrderRows ==
    {<<NumCell(1), NumCell(x), NumCell(0), key>> :
        x \in {0, 1}, key \in {NumCell(1), NumCell(2), StrCell(1)}}

UnreadableCsv == [readable |-> FALSE, header |-> <<>>, rows |-> <<>>]

\* The CSV files of a family.  "header": the header row varies, one row whose
\* cells name their column.  "rows": the rows vary.  "order": the rows and their
\* order keys vary.  "mixed": a few files, one of each outcome.
CsvFamily(f) ==
    CASE f = "header" ->
           {Csv(h, <<[j \in 1..Len(h) |-> NumCell(j)]>>) :
               h \in DistinctSeqs(HeaderNames, MaxHeader)}
      [] f = "rows" -> {Csv(PlainHeader, rs) : rs \in SeqsUpTo(PlainRows, MaxRows)}
      [] f = "order" -> {Csv(OrderHeader, rs) : rs \in SeqsUpTo(OrderRows, MaxRows)}
      [] f = "mixed" ->
           { UnreadableCsv,
             Csv(<<"Polygon #", "Lon">>, <<<<NumCell(1), NumCell(0)>>>>),
             Csv(PlainHeader, <<<<NumCell(1), NumCell(0), NumCell(0)>>>>),
             Csv(PlainHeader, <<<<NumCell(1), NullCell, NumCell(0)>>>>),
             Csv(OrderHeader, <<<<NumCell(1), NumCell(0), NumCell(0), NumCell(2)>>,
                                <<NumCell(1), NumCell(1), NumCell(0), StrCell(1)>>>>) }

\* the folders: one file of a family, or up to MaxCsv files of the "mixed" family
CsvFolders ==
    {<<f>> : f \in {"header", "rows", "order"}} \cup SeqsUpTo({"mixed"}, MaxCsv)

\* the vertex_order_col arguments tried on a folder: none, or a column that the
\* files of "order" have and the other files lack
OrderColumns(folder) ==
    IF \E i \in 1..Len(folder) : folder[i] \in {"order", "mixed"} THEN {"", "Seq"} ELSE {""}

\* whether writing the output may fail: tried on the files of "mixed"
WriteOutcomes(f) == IF f = "mixed" THEN BOOLEAN ELSE {TRUE}

NoFile == [exists |-> FALSE, features |-> <<>>]

InitCsv ==
    /\ pipeline = "csv"
    /\ pc = "idle"
    /\ raised = ""
    /\ \/ csv_dir_ok = TRUE /\ csv_files \in CsvFolders
       \/ csv_dir_ok = FALSE /\ csv_files = <<>>
    /\ vertex_order_col \in OrderColumns(csv_files)
    /\ csv_idx = 1
    /\ outputs = <<>>
    /\ csv_errors = <<>>
    /\ csv_summary = NoCsvSummary
    /\ out_files = [i \in 1..Len(csv_files) |-> NoFile]
    /\ df = NoCsv
    /\ rows_used = <<>>
    /\ cols = <<>>
    /\ features = <<>>
    /\ IdleMerge /\ IdleHash /\ IdleExtract

----------------------------------------------------------------------------
(* batch_csv_to_geojson: the call.                                         *)

\* a bug: an empty folder is not told from a converted one
NoCsvFound_Never(files) == FALSE

\* "if not csv_files"
NoCsvFound(files) == files = <<>>

\* batch_csv_to_geojson is called: input validation and discovery
BatchStart ==
    /\ pipeline = "csv"
    /\ pc = "idle"
    /\ IF ~csv_dir_ok THEN pc' = "raised" /\ raised' = "ValueError"
       ELSE IF NoCsvFound(csv_files) THEN pc' = "raised" /\ raised' = "FileNotFoundError"
       ELSE pc' = "loop" /\ raised' = ""
    /\ UNCHANGED <<pipeline, csvVars, mergeVars, hashVars, extractVars>>

\* one iteration of "for csv_path in csv_files": convert_csv_to_geojson and the
\* bookkeeping of its result; an exception leaving the call leaves the batch
BatchFile ==
    /\ pipeline = "csv"
    /\ pc = "loop"
    /\ csv_idx <= Len(csv_files)
    /\ \E csv \in CsvFamily(csv_files[csv_idx]),
          write_ok \in WriteOutcomes(csv_files[csv_idx]) :
         \E sorted \in SortOutcomes(csv.header, csv.rows,
                                    resolve_columns(csv.header, COLUMN_ALIASES)["polygon_id"],
                                    vertex_order_col) :
            LET r == convert_csv_to_geojson(csv, Country, vertex_order_col, sorted, write_ok)
            IN  /\ df' = csv
                /\ rows_used' = sorted
                /\ cols' = r.cols
                /\ features' = r.features
                /\ out_files' = IF r.wrote
                                THEN [out_files EXCEPT ![csv_idx] =
                                         [exists |-> TRUE, features |-> r.features]]
                                ELSE out_files
                /\ IF r.raised # ""
                   THEN /\ pc' = "raised"
                        /\ raised' = r.raised
                        /\ UNCHANGED <<outputs, csv_errors, csv_idx>>
                   ELSE /\ pc' = pc
                        /\ raised' = raised
                        /\ csv_idx' = csv_idx + 1
                        /\ IF r.err # ""
                           THEN /\ csv_errors' = Append(csv_errors, <<csv_idx, r.err>>)
                                /\ outputs' = outputs
                           ELSE /\ outputs' = Append(outputs, <<csv_idx, csv_idx, r.n>>)
                                /\ csv_errors' = csv_errors
    /\ UNCHANGED <<pipeline, csv_dir_ok, csv_files, vertex_order_col, csv_summary>>
    /\ UNCHANGED <<mergeVars, hashVars, extractVars>>

\* the return statement
BatchFinish ==
    /\ pipeline = "csv"
    /\ pc = "loop"
    /\ csv_idx > Len(csv_files)
    /\ pc' = "done"
    /\ csv_summary' = [inputs |-> Len(csv_files), outputs |-> Len(outputs),
                       written |-> outputs, errors |-> csv_errors]
    /\ UNCHANGED <<pipeline, raised, csv_dir_ok, csv_files, vertex_order_col, csv_idx,
                   outputs, csv_errors, out_files, df, rows_used, cols, features>>
    /\ UNCHANGED <<mergeVars, hashVars, extractVars>>

NextCsv == BatchStart \/ BatchFile \/ BatchFinish

SpecCsv == InitCsv /\ [][NextCsv]_vars

----------------------------------------------------------------------------
(* extract_embedded: clean_json_from_bin.                                  *)

\* A payload is a sequence of bytes, each written as the character it encodes;
\* InvalidByte is a byte that is not valid UTF-8.
InvalidByte == "0xFF"
OpenMarker == <<"{", "\"", "t", "y", "p", "e", "\"", ":">>
TypeKey == <<"\"", "t", "y", "p", "e", "\"">>
end_marker ==
    TypeKey \o <<":", "\"", "P", "o", "l", "y", "g", "o", "n", "\"", "}", "}", "]", "}">>

\* bytes.decode('utf-8', errors='ignore'): the invalid bytes are dropped
decode(bytes) == SelectSeq(bytes, LAMBDA b : b # InvalidByte)

\* the 0-based positions at which pat occurs in text
Occurrences(text, pat) ==
    {i \in 0..(Len(text) - Len(pat)) : SubSeq(text, i + 1, i + Len(pat)) = pat}
SetMin(S) == CHOOSE x \in S : \A y \in S : x <= y
SetMax(S) == CHOOSE x \in S : \A y \in S : x >= y

\* str.find and str.rfind: a 0-based position, or -1
find(text, pat) ==
    IF Occurrences(text, pat) = {} THEN -1 ELSE SetMin(Occurrences(text, pat))
rfind(text, pat) ==
    IF Occurrences(text, pat) = {} THEN -1 ELSE SetMax(Occurrences(text, pat))

\* text[i:j] for 0 <= i: empty when j <= i
Slice(text, i, j) == SubSeq(text, i + 1, Min2(j, Len(text)))

NoText == [none |-> TRUE, text |-> <<>>]

\* clean_json_from_bin(bin_path): none is TRUE for a return of None
clean_json_from_bin(bytes) ==
    LET text == decode(bytes)
        start == find(text, OpenMarker)
        end_idx == rfind(text, end_marker)
        first == find(text, <<"{">>)
        last == rfind(text, <<"}">>)
    IN  IF start >= 0 /\ end_idx >= 0
        THEN [none |-> FALSE, text |-> Slice(text, start, end_idx + Len(end_marker))]
        ELSE IF /\ first >= 0
                /\ last > first
                /\ Occurrences(Slice(text, first, last), TypeKey) # {}
        THEN [none |-> FALSE, text |-> Slice(text, first, last + 1)]
        ELSE NoText

----------------------------------------------------------------------------
(* extract_embedded: what a container holds.                               *)

\* an entry of an archive: a *.bin payload (zipbin: it is itself a zip archive),
\* a printerSettings*.bin, or a nested *.zip (opens: it unpacks; blocked: a
\* regular file <stem>_inner lies next to it; bins: the *.bin files it leaves in
\* <stem>_inner)
Bin(stem, zipbin, bytes) ==
    [kind |-> "bin", stem |-> stem, zipbin |-> zipbin, bytes |-> bytes,
     opens |-> FALSE, blocked |-> FALSE, bins |-> <<>>]
PrinterBin ==
    [kind |-> "printer", stem |-> "printerSettings1", zipbin |-> FALSE, bytes |-> <<>>,
     opens |-> FALSE, blocked |-> FALSE, bins |-> <<>>]
NestedZip(opens, blocked, bins) ==
    [kind |-> "zip", stem |-> "inner", zipbin |-> FALSE, bytes |-> <<>>,
     opens |-> opens, blocked |-> blocked, bins |-> bins]

\* a container file: opens is FALSE when safe_extract_zip fails on it, and then
\* entries are what extractall wrote before it failed
Archive(opens, entries) == [opens |-> opens, entries |-> entries]

RECURSIVE Flatten(_)
Flatten(ss) == IF ss = <<>> THEN <<>> ELSE Head(ss) \o Flatten(Tail(ss))

\* the payloads tried: up to MaxTokens pieces, each a marker, a brace, a "type"
\* key, a plain character or an invalid byte
Tokens == {OpenMarker, end_marker, <<"{">>, <<"}">>, TypeKey, <<"x">>, <<InvalidByte>>}
Payloads == {Flatten(ts) : ts \in SeqsUpTo(Tokens, MaxTokens)}

GoodText == OpenMarker \o <<"x">> \o end_marker
BracesText == <<"{">> \o TypeKey \o <<"}">>
PlainText == <<"x">>

\* the archives a container of a family may turn out to be
Archives(f) ==
    CASE f = "corrupt" ->
           { Archive(FALSE, <<>>),
             Archive(FALSE, <<Bin("o1", FALSE, GoodText)>>) }
      [] f = "mixed" ->
           { Archive(TRUE, <<>>),
             Archive(TRUE, <<Bin("o1", TRUE, <<>>)>>),
             Archive(TRUE, <<Bin("o1", FALSE, GoodText), PrinterBin>>),
             Archive(TRUE, <<Bin("o1", FALSE, GoodText),
                             NestedZip(TRUE, FALSE, <<Bin("o1", FALSE, BracesText)>>)>>),
             Archive(TRUE, <<NestedZip(FALSE, FALSE, <<>>), Bin("o2", FALSE, PlainText)>>),
             Archive(TRUE, <<NestedZip(TRUE, TRUE, <<>>), Bin("o1", FALSE, GoodText)>>) }
      [] f = "text" ->
           { Archive(TRUE, <<Bin("o1", FALSE, p)>>) : p \in Payloads }

\* list(SRC.glob("*.xlsx")) + list(SRC.glob("*.zip")): the names differ and
\* every *.xlsx comes before every *.zip
Containers(F) == [suffix : {"xlsx", "zip"}, stem : Stems, family : F]
GlobOrder(s) ==
    \A i, j \in 1..Len(s) :
        i < j => /\ <<s[i].suffix, s[i].stem>> # <<s[j].suffix, s[j].stem>>
                 /\ ~(s[i].suffix = "zip" /\ s[j].suffix = "xlsx")

\* the source folders: one container of any family, or up to MaxContainers
\* containers of the families "corrupt" and "mixed"
ExFolders ==
    {<<c>> : c \in Containers({"corrupt", "mixed", "text"})}
        \cup {s \in SeqsUpTo(Containers({"corrupt", "mixed"}), MaxContainers) :
                GlobOrder(s)}

----------------------------------------------------------------------------
(* extract_embedded: the call.                                             *)

ZeroSummary ==
    [xlsx |-> 0, zip |-> 0, nested_zips |-> 0, bin_processed |-> 0,
     zip_bins_extracted |-> 0, json_cleaned |-> 0, errors |-> 0, outputs |-> <<>>]

RECURSIVE unique_dir(_, _, _)
\* unique_dir(OUT / file.stem): <stem> (0) if free, else the first free <stem>_idx
unique_dir(dirs, stem, n) ==
    IF \E k \in 1..Len(dirs) : dirs[k].stem = stem /\ dirs[k].idx = n
    THEN unique_dir(dirs, stem, n + 1)
    ELSE n

RECURSIVE nested_pass(_, _, _)
\* for zip_path in temp_dir.rglob("*.zip"): raised is TRUE when inner_dest.mkdir
\* raises; unpacked are the *.bin files left in the <stem>_inner directories
nested_pass(zips, n, unpacked) ==
    IF zips = <<>> THEN [raised |-> FALSE, n_nested_zips |-> n, unpacked |-> unpacked]
    ELSE LET z == Head(zips) IN
         IF z.blocked
         THEN [raised |-> TRUE, n_nested_zips |-> n, unpacked |-> unpacked]
         ELSE nested_pass(Tail(zips), IF z.opens THEN n + 1 ELSE n, unpacked \o z.bins)

\* a file of a final directory: <stem>.geojson (0) or <stem>_i.geojson written
\* by the scrubbing, or a member unpacked from a *.bin that is a zip archive
GeojsonFile(stem, i, text) == [kind |-> "geojson", stem |-> stem, i |-> i, text |-> text]
Member == [kind |-> "member", stem |-> "member", i |-> 0, text |-> <<>>]

RECURSIVE out_file(_, _, _)
\* out_file = <stem>.geojson; i = 1; while out_file.exists(): <stem>_i.geojson
out_file(files, stem, i) ==
    IF \E k \in 1..Len(files) :
          files[k].kind = "geojson" /\ files[k].stem = stem /\ files[k].i = i
    THEN out_file(files, stem, i + 1)
    ELSE i

\* a bug: a failure is not counted
CountError_Skip(n) == n

\* errors += 1
CountError(n) == n + 1

RECURSIVE bin_pass(_, _, _, _)
\* for bin_file in bin_files: file_name is the container, final_dir its directory
bin_pass(bin_files, file_name, final_dir, acc) ==
    IF bin_files = <<>> THEN acc
    ELSE LET b == Head(bin_files)
             cleaned == clean_json_from_bin(b.bytes)
             i == out_file(acc.files, b.stem, 0)
             counted == [acc EXCEPT !.bin_processed = @ + 1]
         IN  IF b.zipbin
             THEN bin_pass(Tail(bin_files), file_name, final_dir,
                           [counted EXCEPT !.zip_bins_extracted = @ + 1,
                                           !.files = Append(@, Member)])
             ELSE IF ~cleaned.none /\ cleaned.text # <<>>
             THEN bin_pass(Tail(bin_files), file_name, final_dir,
                           [counted EXCEPT
                              !.json_cleaned = @ + 1,
                              !.files = Append(@, GeojsonFile(b.stem, i, cleaned.text)),
                              !.outputs = Append(@, <<file_name, <<final_dir, b.stem, i>>>>)])
             ELSE bin_pass(Tail(bin_files), file_name, final_dir,
                           [counted EXCEPT !.errors = CountError(@)])

\* the source folder: missing, or holding up to MaxContainers *.xlsx / *.zip files
InitExtract ==
    /\ pipeline = "extract"
    /\ pc = "idle"
    /\ raised = ""
    /\ \/ src_ok = TRUE /\ files_found \in ExFolders
       \/ src_ok = FALSE /\ files_found = <<>>
    /\ ExtractFresh
    /\ IdleMerge /\ IdleHash /\ IdleCsv

\* extract_embedded is called: OUT and TEMP are made, the containers globbed (a
\* missing source folder globs to nothing), and with none found the all-zero
\* summary is returned
ExtractStart ==
    /\ pipeline = "extract"
    /\ pc = "idle"
    /\ temp_root' = TRUE
    /\ IF files_found = <<>>
       THEN pc' = "done" /\ ex_summary' = ZeroSummary
       ELSE pc' = "loop" /\ ex_summary' = ex_summary
    /\ UNCHANGED <<pipeline, raised, src_ok, files_found, ex_idx, archives, temp_dirs,
                   out_dirs, n_xlsx, n_zip, n_nested_zips, n_bin_processed,
                   n_json_cleaned, n_zip_bins_extracted, ex_errors, ex_outputs>>
    /\ UNCHANGED <<mergeVars, hashVars, csvVars>>

\* one iteration of "for file in files_found"
ExtractFile ==
    /\ pipeline = "extract"
    /\ pc = "loop"
    /\ ex_idx <= Len(files_found)
    /\ \E arch \in Archives(files_found[ex_idx].family) :
          LET file == files_found[ex_idx]
              temp_dir == [exists |-> TRUE,
                           entries |-> temp_dirs[file.stem].entries \o arch.entries]
              final_dir == [stem |-> file.stem,
                            idx |-> unique_dir(out_dirs, file.stem, 0),
                            of |-> ex_idx,
                            files |-> <<>>]
              zips == SelectSeq(temp_dir.entries, LAMBDA e : e.kind = "zip")
              nested == nested_pass(zips, n_nested_zips, <<>>)
              bin_files == SelectSeq(temp_dir.entries, LAMBDA e : e.kind = "bin")
                              \o nested.unpacked
              acc == bin_pass(bin_files, ex_idx, <<final_dir.stem, final_dir.idx>>,
                              [bin_processed |-> n_bin_processed,
                               zip_bins_extracted |-> n_zip_bins_extracted,
                               json_cleaned |-> n_json_cleaned,
                               errors |-> ex_errors,
                               outputs |-> ex_outputs,
                               files |-> <<>>])
          IN  /\ archives' = Append(archives, arch)
              /\ IF ~arch.opens
                 THEN /\ ex_errors' = CountError(ex_errors)
                      /\ temp_dirs' = [temp_dirs EXCEPT ![file.stem] = temp_dir]
                      /\ out_dirs' = Append(out_dirs, final_dir)
                      /\ ex_idx' = ex_idx + 1
                      /\ UNCHANGED <<pc, raised, n_xlsx, n_zip, n_nested_zips,
                                     n_bin_processed, n_json_cleaned,
                                     n_zip_bins_extracted, ex_outputs>>
                 ELSE /\ n_xlsx' = IF file.suffix = "xlsx" THEN n_xlsx + 1 ELSE n_xlsx
                      /\ n_zip' = IF file.suffix = "xlsx" THEN n_zip ELSE n_zip + 1
                      /\ n_nested_zips' = nested.n_nested_zips
                      /\ IF nested.raised
                         THEN /\ pc' = "raised"
                              /\ raised' = "FileExistsError"
                              /\ temp_dirs' =
                                    [temp_dirs EXCEPT ![file.stem] =
                                        [exists |-> TRUE,
                                         entries |-> temp_dir.entries \o nested.unpacked]]
                              /\ out_dirs' = Append(out_dirs, final_dir)
                              /\ UNCHANGED <<ex_idx, n_bin_processed, n_json_cleaned,
                                             n_zip_bins_extracted, ex_errors, ex_outputs>>
                         ELSE /\ n_bin_processed' = acc.bin_processed
                              /\ n_zip_bins_extracted' = acc.zip_bins_extracted
                              /\ n_json_cleaned' = acc.json_cleaned
                              /\ ex_errors' = acc.errors
                              /\ ex_outputs' = acc.outputs
                              /\ out_dirs' = Append(out_dirs,
                                                    [final_dir EXCEPT !.files = acc.files])
                              /\ temp_dirs' = [temp_dirs EXCEPT ![file.stem] = NoDir]
                              /\ ex_idx' = ex_idx + 1
                              /\ UNCHANGED <<pc, raised>>
    /\ UNCHANGED <<pipeline, src_ok, files_found, temp_root, ex_summary>>
    /\ UNCHANGED <<mergeVars, hashVars, csvVars>>

\* after the loop: shutil.rmtree(TEMP) and the summary
ExtractFinish ==
    /\ pipeline = "extract"
    /\ pc = "loop"
    /\ ex_idx > Len(files_found)
    /\ pc' = "done"
    /\ temp_root' = FALSE
    /\ temp_dirs' = [s \in Stems |-> NoDir]
    /\ ex_summary' = [xlsx |-> n_xlsx, zip |-> n_zip, nested_zips |-> n_nested_zips,
                      bin_processed |-> n_bin_processed,
                      zip_bins_extracted |-> n_zip_bins_extracted,
                      json_cleaned |-> n_json_cleaned, errors |-> ex_errors,
                      outputs |-> ex_outputs]
    /\ UNCHANGED <<pipeline, raised, src_ok, files_found, ex_idx, archives, out_dirs,
                   n_xlsx, n_zip, n_nested_zips, n_bin_processed, n_json_cleaned,
                   n_zip_bins_extracted, ex_errors, ex_outputs>>
    /\ UNCHANGED <<mergeVars, hashVars, csvVars>>

NextExtract == ExtractStart \/ ExtractFile \/ ExtractFinish

SpecExtract == InitExtract /\ [][NextExtract]_vars

----------------------------------------------------------------------------
(* All pipelines.                                                          *)

Init == InitMerge \/ InitHash \/ InitCsv \/ InitExtract

Next == NextMerge \/ NextHash \/ NextCsv \/ NextExtract

Spec == Init /\ [][Next]_vars

----------------------------------------------------------------------------
(* What the claims about the CSV conversion speak of.                      *)

\* the last file of the loop was converted and written
LastWritten ==
    /\ pipeline = "csv" /\ pc \in {"loop", "done"} /\ csv_idx > 1
    /\ outputs # <<>> /\ outputs[Len(outputs)][1] = csv_idx - 1

\* the valid pairs of a polygon identifier's group, in the order they were read
GroupCoords(id) ==
    ValidCoords(df.header, RowsWithId(df.header, rows_used, cols["polygon_id"], id),
                cols["longitude"], cols["latitude"])
LastIds == GroupIds(df.header, rows_used, cols["polygon_id"])
FeaturesOf(id) == {i \in 1..Len(features) : features[i].properties.polygon = id}

\* C8 as stated: a group with n valid rows emits nothing for n = 0, a Point at the
\* first valid pair for n = 1 or 2, and for n >= 3 a Polygon whose exterior ring
\* is the ordered valid pairs closed by repeating the first pair; the number of
\* features written is the number of groups with n >= 1.
C8_GeometryByValidRows ==
    LastWritten
        => /\ \A id \in LastIds :
                 LET coords == GroupCoords(id)
                     n == Len(coords)
                 IN  /\ n = 0 => FeaturesOf(id) = {}
                     /\ n >= 1 => Cardinality(FeaturesOf(id)) = 1
                     /\ n \in {1, 2} =>
                           \A i \in FeaturesOf(id) :
                              features[i].geometry =
                                 [type |-> "Point", coordinates |-> <<coords[1]>>]
                     /\ n >= 3 =>
                           \A i \in FeaturesOf(id) :
                              features[i].geometry =
                                 [type |-> "Polygon",
                                  coordinates |-> Append(coords, coords[1])]
           /\ Len(features) = Cardinality({id \in LastIds : Len(GroupCoords(id)) >= 1})
           /\ outputs[Len(outputs)][3] = Len(features)
           /\ out_files[csv_idx - 1] = [exists |-> TRUE, features |-> features]

\* the exterior ring as amended: the first pair is repeated unless there are at
\* least four pairs and the last already equals the first
ClosedRing(coords) ==
    IF Len(coords) >= 4 /\ coords[Len(coords)] = coords[1] THEN coords
    ELSE Append(coords, coords[1])

\* C8, amended: as above, but for n >= 3 the ring is the ordered valid pairs,
\* closed by repeating the first pair only when n = 3 or the last valid pair
\* differs from the first; with n >= 4 and the last pair equal to the first the
\* ring is the valid pairs as they are.
C8_GeometryByValidRowsClosedOnce ==
    LastWritten
        => /\ \A id \in LastIds :
                 LET coords == GroupCoords(id)
                     n == Len(coords)
                 IN  /\ n = 0 => FeaturesOf(id) = {}
                     /\ n >= 1 => Cardinality(FeaturesOf(id)) = 1
                     /\ n \in {1, 2} =>
                           \A i \in FeaturesOf(id) :
                              features[i].geometry =
                                 [type |-> "Point", coordinates |-> <<coords[1]>>]
                     /\ n >= 3 =>
                           \A i \in FeaturesOf(id) :
                              features[i].geometry =
                                 [type |-> "Polygon", coordinates |-> ClosedRing(coords)]
           /\ Len(features) = Cardinality({id \in LastIds : Len(GroupCoords(id)) >= 1})
           /\ outputs[Len(outputs)][3] = Len(features)
           /\ out_files[csv_idx - 1] = [exists |-> TRUE, features |-> features]

\* a group of four valid pairs that is already closed, written as a Polygon
\* whose ring is those four pairs
C8_Witness ==
    /\ LastWritten
    /\ Len(features) = 1
    /\ Len(GroupCoords(1)) = 4
    /\ features[1].geometry =
          [type |-> "Polygon", coordinates |-> <<<<0, 0>>, <<1, 0>>, <<1, 0>>, <<0, 0>>>>]

\* C9: batch_convert never aborts on an individual file: whatever fails while
\* converting a CSV, each converted file is in exactly one of written and
\* errors, the later files are still converted, and the summary has
\* inputs = len(written) + len(errors) and outputs = len(written).
C9_BatchNeverAborts ==
    pipeline = "csv"
        => /\ pc = "raised" => raised \in {"ValueError", "FileNotFoundError"}
           /\ pc \in {"loop", "done"} =>
                 \A i \in 1..(csv_idx - 1) :
                    Cardinality({j \in 1..Len(outputs) : outputs[j][1] = i})
                      + Cardinality({j \in 1..Len(csv_errors) : csv_errors[j][1] = i}) = 1
           /\ pc = "done" =>
                 /\ csv_idx = Len(csv_files) + 1
                 /\ csv_summary.inputs
                       = Len(csv_summary.written) + Len(csv_summary.errors)
                 /\ csv_summary.outputs = Len(csv_summary.written)

\* the header names of the last CSV read that are accepted for a canonical field
Accepted(c) == {j \in 1..Len(df.header) : df.header[j] \in Range(COLUMN_ALIASES[c])}
Resolved == pipeline = "csv" /\ df.readable /\ csv_idx > 1

\* C10 as stated: a field resolves to the first header of the input, left to
\* right, that is one of its alias names, and to absent when there is none.
C10_FirstHeaderWins ==
    Resolved
        => \A c \in DOMAIN COLUMN_ALIASES :
              IF Accepted(c) = {} THEN cols[c] = ""
              ELSE cols[c] = df.header[CHOOSE j \in Accepted(c) : \A k \in Accepted(c) : j <= k]

\* C10, amended: a field resolves to the first name of its ordered alias list
\* that occurs in the header row (case-sensitive exact match), wherever in the
\* row it stands, and to absent when none occurs.
C10_FirstAliasWins ==
    Resolved
        => \A c \in DOMAIN COLUMN_ALIASES :
              LET hits == {k \in 1..Len(COLUMN_ALIASES[c]) :
                              COLUMN_ALIASES[c][k] \in Range(df.header)}
              IN  IF hits = {} THEN cols[c] = ""
                  ELSE cols[c] = COLUMN_ALIASES[c][CHOOSE k \in hits : \A m \in hits : k <= m]

C10_Witness ==
    /\ Resolved
    /\ df.header = <<"Polygon #", "Lon", "Longitude", "Latitude">>
    /\ cols["longitude"] = "Longitude"
    /\ features # <<>>

----------------------------------------------------------------------------
(* What the claim about the three pipelines speaks of.                     *)

CallOver == pc \in {"done", "raised"} /\ pipeline # "hash"
NoInput ==
    CASE pipeline = "merge" -> ~in_dir_ok \/ paths = <<>>
      [] pipeline = "csv" -> ~csv_dir_ok \/ csv_files = <<>>
      [] pipeline = "extract" -> ~src_ok \/ files_found = <<>>
      [] OTHER -> FALSE

\* C5 as stated: in each of the three pipelines a call whose input directory is
\* invalid or missing, or that finds no matching input file, ends with a raised
\* error and returns no summary.
C5_NoInputRaises == (CallOver /\ NoInput) => pc = "raised"

\* C5, amended: merge and batch_convert raise (ValueError for an invalid
\* directory, FileNotFoundError for no matching file) and write nothing; extract
\* raises in neither case and returns its summary with every count zero.
C5_NoInputRaisesExceptExtract ==
    (CallOver /\ NoInput)
        => CASE pipeline = "merge" ->
                  /\ pc = "raised"
                  /\ raised = IF in_dir_ok THEN "FileNotFoundError" ELSE "ValueError"
                  /\ summary = NoSummary
                  /\ \A i \in OutPaths : fs[i] <= 0
             [] pipeline = "csv" ->
                  /\ pc = "raised"
                  /\ raised = IF csv_dir_ok THEN "FileNotFoundError" ELSE "ValueError"
                  /\ csv_summary = NoCsvSummary
             [] pipeline = "extract" -> pc = "done" /\ ex_summary = ZeroSummary

C5_Witness ==
    /\ pipeline = "csv" /\ pc = "raised" /\ raised = "FileNotFoundError"
    /\ csv_dir_ok /\ csv_files = <<>>

----------------------------------------------------------------------------
(* What the claims about extract speak of.                                 *)

ExtractOver == pipeline = "extract" /\ pc \in {"done", "raised"}
ExtractDone == pipeline = "extract" /\ pc = "done"
Opened == {k \in 1..Len(archives) : archives[k].opens}
Failed == {k \in 1..Len(archives) : ~archives[k].opens}

\* C11: every extract call ends with <output_folder>/temp removed: when it
\* returns after processing containers, when it returns because no container
\* was found, and when it ends by an exception raised while processing one.
C11_TempRootRemovedOnEveryExit == ExtractOver => ~temp_root

\* the output path of the f-th file of the d-th directory made under the output
\* folder
PathOf(d, f) ==
    <<<<out_dirs[d].stem, out_dirs[d].idx>>, out_dirs[d].files[f].stem,
      out_dirs[d].files[f].i>>

\* C12: the outputs list returned by extract holds a (source container, output
\* path) pair for every artifact produced in the output folder: every .geojson
\* recovered by scrubbing and everything unpacked from a .bin that is a zip.
C12_OutputsListEveryArtifact ==
    ExtractDone
        => \A d \in 1..Len(out_dirs) :
              \A f \in 1..Len(out_dirs[d].files) :
                 \E o \in 1..Len(ex_summary.outputs) :
                    ex_summary.outputs[o] = <<out_dirs[d].of, PathOf(d, f)>>

\* C13: a container that cannot be opened as a zip archive counts exactly one
\* error, the loop goes on to the next container, and nothing is left for it:
\* no directory under the output folder and no outputs pair name it.
C13_FailedContainerLeavesNothing ==
    (pipeline = "extract" /\ pc \in {"loop", "done"})
        => /\ \A k \in Failed :
                 /\ ex_idx > k
                 /\ \A d \in 1..Len(out_dirs) : out_dirs[d].of # k
                 /\ \A o \in 1..Len(ex_outputs) : ex_outputs[o][1] # k
           /\ ex_errors >= Cardinality(Failed)
           /\ (Opened = {} /\ temp_dirs = [s \in Stems |-> NoDir])
                 => ex_errors = Cardinality(Failed)

\* the two heuristics as the specification words them, on a decoded text
HasMarkers(text) ==
    Occurrences(text, OpenMarker) # {} /\ Occurrences(text, end_marker) # {}
HasOutermostObject(text) ==
    /\ Occurrences(text, <<"{">>) # {}
    /\ Occurrences(text, <<"}">>) # {}
    /\ LET first == SetMin(Occurrences(text, <<"{">>))
           last == SetMax(Occurrences(text, <<"}">>))
       IN  /\ first < last
           /\ Occurrences(SubSeq(text, first + 1, last + 1), TypeKey) # {}
StartsWith(text, pat) == Len(text) >= Len(pat) /\ SubSeq(text, 1, Len(pat)) = pat
EndsWith(text, pat) ==
    Len(text) >= Len(pat) /\ SubSeq(text, Len(text) - Len(pat) + 1, Len(text)) = pat

\* a folder of one container that opened and held one payload that is no zip
OnePayloadScrubbed ==
    /\ pipeline = "extract" /\ pc \in {"loop", "done"}
    /\ Len(files_found) = 1 /\ ex_idx = 2
    /\ archives[1].opens
    /\ Len(archives[1].entries) = 1
    /\ archives[1].entries[1].kind = "bin" /\ ~archives[1].entries[1].zipbin

\* C14: a payload that is no zip is counted as an error only if neither
\* heuristic matches (the decoded text lacks the opening or the closing marker,
\* and has no outermost { ... } holding a "type" key); when heuristic (i) applies
\* the written text runs from the first opening marker to the last closing
\* marker inclusive; when only heuristic (ii) applies it is the outermost
\* { ... } substring.
C14_ScrubbingHeuristics ==
    OnePayloadScrubbed
        => LET text == decode(archives[1].entries[1].bytes)
               written == out_dirs[1].files
           IN  /\ ex_errors = 1 => (~HasMarkers(text) /\ ~HasOutermostObject(text))
               /\ HasMarkers(text)
                    => /\ Len(written) = 1
                       /\ StartsWith(written[1].text, OpenMarker)
                       /\ EndsWith(written[1].text, end_marker)
                       /\ written[1].text =
                             SubSeq(text, SetMin(Occurrences(text, OpenMarker)) + 1,
                                    SetMax(Occurrences(text, end_marker)) + Len(end_marker))
               /\ (~HasMarkers(text) /\ HasOutermostObject(text))
                    => /\ Len(written) = 1
                       /\ written[1].text =
                             SubSeq(text, SetMin(Occurrences(text, <<"{">>)) + 1,
                                    SetMax(Occurrences(text, <<"}">>)) + 1)

\* C15: the temp directory of a container is removed as soon as the container
\* has been processed, whether it was unpacked or not: when the loop turns to
\* container k+1 the temp directory of container k is gone, so a container never
\* finds what an earlier one of the same stem left.
C15_TempDirRemovedPerContainer ==
    (pipeline = "extract" /\ pc = "loop")
        => \A k \in 1..Len(files_found) :
              k < ex_idx => ~temp_dirs[files_found[k].stem].exists

\* every *.bin payload an archive holds, at top level or in a nested zip
RECURSIVE BinsOfEntries(_)
BinsOfEntries(entries) ==
    IF entries = <<>> THEN <<>>
    ELSE LET e == Head(entries) IN
         (IF e.kind = "bin" THEN <<e>> ELSE IF e.kind = "zip" THEN e.bins ELSE <<>>)
            \o BinsOfEntries(Tail(entries))
Unrecoverable(b) ==
    ~b.zipbin /\ ~HasMarkers(decode(b.bytes)) /\ ~HasOutermostObject(decode(b.bytes))
UnrecoverableIn(k) ==
    Cardinality({n \in 1..Len(BinsOfEntries(archives[k].entries)) :
                    Unrecoverable(BinsOfEntries(archives[k].entries)[n])})
RECURSIVE UnrecoverableUpTo(_)
UnrecoverableUpTo(k) ==
    IF k = 0 THEN 0 ELSE UnrecoverableIn(k) + UnrecoverableUpTo(k - 1)

\* C16: the nested-zip pass is best-effort: a nested zip that cannot be unpacked,
\* or whose <name>_inner directory cannot be made, never raises out of extract,
\* never adds to errors, and never keeps the payload pass of its container or
\* the later containers from running.
C16_NestedZipsAreBestEffort ==
    /\ pipeline = "extract" => pc # "raised"
    /\ ExtractDone
         => /\ Len(archives) = Len(files_found)
            /\ ex_summary.errors <= Cardinality(Failed)
                                     + UnrecoverableUpTo(Len(archives))

\* the files of a kind in the directories made under the output folder
FilesOfKind(kind) ==
    {<<d, f>> \in (1..Len(out_dirs)) \X (1..(2 * MaxContainers + 2)) :
        f <= Len(out_dirs[d].files) /\ out_dirs[d].files[f].kind = kind}

\* C17: the counters of the summary are consistent: every examined .bin is
\* classified once (unpacked as a zip, scrubbed, or unrecoverable), errors is
\* the containers that did not open plus the unrecoverable payloads, and outputs
\* has one pair per scrubbed payload.
C17_CountersConsistent ==
    ExtractDone
        => LET s == ex_summary
               found == Len(files_found)
               unrecoverable == s.bin_processed - s.zip_bins_extracted - s.json_cleaned
           IN  /\ unrecoverable >= 0
               /\ s.errors = (found - s.xlsx - s.zip) + unrecoverable
               /\ Len(s.outputs) = s.json_cleaned
               /\ s.xlsx + s.zip = Cardinality(Opened)
               /\ s.xlsx = Cardinality({k \in Opened : files_found[k].suffix = "xlsx"})
               /\ Cardinality(FilesOfKind("geojson")) = s.json_cleaned
               /\ Cardinality(FilesOfKind("member")) = s.zip_bins_extracted

\* a container that does not open and leaves a payload behind, then one of the
\* same stem with an unrecoverable payload: two errors, one scrubbed payload
C17_Witness ==
    /\ ExtractDone
    /\ Len(files_found) = 2
    /\ ex_summary.errors = 2
    /\ ex_summary.bin_processed = 2
    /\ ex_summary.json_cleaned = 1
    /\ ex_summary.xlsx + ex_summary.zip = 1

----------------------------------------------------------------------------
(* What the claim about the atomicity of merge speaks of.                  *)

\* the file a kept feature came from: its ProductionPlace
PlaceOf(ft) ==
    LET items == ft.properties.items
        k == CHOOSE j \in 1..Len(items) : items[j][1] = "ProductionPlace"
    IN  items[k][2]
KeptFrom(i) == {n \in 1..Len(all_features) : PlaceOf(all_features[n]) = FileStems[i]}

\* C18: a file contributes either all of its normalized features (modulo
\* deduplication) and no error entry, or one error entry and no feature at all;
\* the summary has unique_features = the number of features written and
\* files_scanned = the number of discovered files >= len(errors).
C18_PerFileAtomicity ==
    /\ (pipeline = "merge"
          /\ (pc \in {"loop", "done"} \/ (pc = "raised" /\ raised = "RuntimeError")))
         => \A i \in 1..Len(paths) :
               i < idx
                 => \/ /\ ErrorsFor(i) = {}
                       /\ \A v \in FeatureLikeOfFile(paths[i]) :
                             feature_hash(Normalized(v, i)).digest \in seen
                    \/ /\ Cardinality(ErrorsFor(i)) = 1
                       /\ KeptFrom(i) = {}
    /\ (pipeline = "merge" /\ pc = "done")
         => /\ summary.unique_features = Len(merged.features)
            /\ merged.features = all_features
            /\ summary.files_scanned = Len(paths)
            /\ Len(paths) >= Len(summary.errors)
            /\ summary.errors = errors

\* a collection whose second member makes to_features raise: the file is in
\* errors and its first member, a Feature, is not in the output
C18_Witness ==
    /\ pipeline = "merge" /\ pc = "done"
    /\ Len(paths) = 2
    /\ paths[1] = File(CollectionV(<<FeatureV(PtB, PropsA), ScalarV>>))
    /\ errors = <<<<1, "to_features raised">>>>
    /\ KeptFrom(1) = {}
    /\ KeptFrom(2) # {}

====
